---- MODULE Spec2Model ----
(***************************************************************************)
(* A model of src/App.tsx: the RaceConditionDemo shell with its userId,    *)
(* the two panels WithoutCleanup and WithCleanup, and the simulated API    *)
(* fetchUserData (a promise resolved by a one-shot setTimeout).            *)
(*                                                                         *)
(* The callbacks of the source are the actions: toggleUser (the click      *)
(* handler), the effect of WithoutCleanup, the effect of WithCleanup, the  *)
(* cleanup closure the latter returns, and the two .then handlers, each    *)
(* run together with the timer callback that resolves its promise.  React  *)
(* runs the pending cleanup and effects of a commit before it returns to   *)
(* the event loop, so no timer fires and no time passes while "effects"    *)
(* is non-empty.  Time is in milliseconds.                                 *)
(***************************************************************************)
EXTENDS Integers, Sequences, FiniteSets

\* Bounds of the model: the number of clicks on "Toggle User", and the time
\* (ms) before which they are made and up to which an idle clock runs.
MaxToggles == 3
MaxTime == 4000

\* Resolution of the clock: the shorter of the two delays of fetchUserData,
\* which divides the other.  Events of one instant are taken in every order
\* the timers allow.
Quantum == 1000

VARIABLES
    userId,     \* RaceConditionDemo: useState(1)
    mounted,    \* whether RaceConditionDemo (and so both panels) is mounted
    effects,    \* cleanup and effects of the last commit still to be run
    now,        \* the clock, ms
    toggles,    \* number of clicks on "Toggle User" so far
    uInv,       \* WithoutCleanup: the fetchUserData calls of its effect, in order
    uData,      \* WithoutCleanup: data
    uLoading,   \* WithoutCleanup: loading
    gInv,       \* WithCleanup: the fetchUser calls of its effect, each with its isMounted
    gData,      \* WithCleanup: data
    gLoading,   \* WithCleanup: loading
    console     \* the console.log lines of the two panels, in order

vars == <<userId, mounted, effects, now, toggles,
          uInv, uData, uLoading, gInv, gData, gLoading, console>>

UserIds == {1, 2}

\* useState<UserData | null>(null): data is <<>> for null, <<r>> for a value r.
null == <<>>

\* As delay, were the delay the same for every user.
delay_same(id) == 1000

\* As delay, were the test userId === 2: user 2 the slow one.
delay_swapped(id) == IF id = 2 THEN 3000 ELSE 1000

\* const delay = userId === 1 ? 3000 : 1000;
delay(id) == IF id = 1 THEN 3000 ELSE 1000

\* As UserData, were the resolved value hard-coded to user 1.
UserData_fixed(id) == [id |-> 1, name |-> <<"User ", 1>>,
                       email |-> <<"user", 1, "@example.com">>]

\* The value fetchUserData resolves with.
UserData(id) == [id |-> id, name |-> <<"User ", id>>,
                 email |-> <<"user", id, "@example.com">>]

\* A call of fetchUserData at time t: a promise and the timer that resolves it.
fetchUserData(id, t) == [userId |-> id, start |-> t, due |-> t + delay(id),
                         pending |-> TRUE]

\* As Cycle, were isMounted initialised to false.
Cycle_unmounted(f) == [userId |-> f.userId, start |-> f.start, due |-> f.due,
                       pending |-> f.pending, isMounted |-> FALSE]

\* One run of WithCleanup's effect: its fetch and its own "let isMounted = true".
Cycle(f) == [userId |-> f.userId, start |-> f.start, due |-> f.due,
             pending |-> f.pending, isMounted |-> TRUE]

\* data?.id as the panel renders it (0 stands for undefined).
idOf(data) == IF data = null THEN 0 ELSE data[1].id

\* One console line: panel, event, the userId the line prints, and (not
\* printed by the code) the index of the effect run it belongs to and the time.
Line(who, ev, id, i) == [who |-> who, ev |-> ev, userId |-> id, inv |-> i, at |-> now]

Inv(who, i) == IF who = "U" THEN uInv[i] ELSE gInv[i]

Timers == ({"U"} \X (1..Len(uInv))) \cup ({"G"} \X (1..Len(gInv)))

\* Order in which the timers were set: effect run by effect run, and within
\* one commit WithoutCleanup (first in the tree) before WithCleanup.
SetBefore(a, b) == a[2] < b[2] \/ (a[2] = b[2] /\ a[1] = "U" /\ b[1] = "G")

Due(a) == Inv(a[1], a[2]).pending /\ Inv(a[1], a[2]).due <= now

\* setTimeout: the callback runs once its delay has passed, after every
\* timer set earlier with a delay no longer than its own.
CanFire(who, i) ==
    /\ effects = {}
    /\ i \in 1..Len(IF who = "U" THEN uInv ELSE gInv)
    /\ Due(<<who, i>>)
    /\ \A b \in Timers :
          (SetBefore(b, <<who, i>>) /\ Inv(b[1], b[2]).pending)
             => delay(Inv(b[1], b[2]).userId) > delay(Inv(who, i).userId)

Init ==
    /\ userId = 1
    /\ mounted = TRUE
    /\ effects = {"effectU", "effectG"}
    /\ now = 0
    /\ toggles = 0
    /\ uInv = <<>>
    /\ uData = null
    /\ uLoading = TRUE
    /\ gInv = <<>>
    /\ gData = null
    /\ gLoading = TRUE
    /\ console = <<>>

\* toggleUser: setUserId(prev => prev === 1 ? 2 : 1).  The re-render it causes
\* gives both panels the new userId, so the effect of each is to run again,
\* WithCleanup's after the cleanup of its previous run.
toggleUser ==
    /\ mounted
    /\ effects = {}
    /\ toggles < MaxToggles
    /\ now < MaxTime
    /\ userId' = (IF userId = 1 THEN 2 ELSE 1)
    /\ effects' = {"cleanup", "effectU", "effectG"}
    /\ toggles' = toggles + 1
    /\ UNCHANGED <<mounted, now, uInv, uData, uLoading, gInv, gData, gLoading, console>>

\* The effect of WithoutCleanup.
UnguardedEffect ==
    /\ "effectU" \in effects
    /\ effects' = effects \ {"effectU"}
    /\ uLoading' = TRUE
    /\ uInv' = Append(uInv, fetchUserData(userId, now))
    /\ console' = Append(console, Line("U", "effect", userId, Len(uInv) + 1))
    /\ UNCHANGED <<userId, mounted, now, toggles, uData, gInv, gData, gLoading>>

\* As GuardedCleanup, were "isMounted = false" missing from the cleanup.
GuardedCleanup_noop ==
    /\ "cleanup" \in effects
    /\ Len(gInv) > 0
    /\ effects' = effects \ {"cleanup"}
    /\ console' = Append(console, Line("G", "cleanup", gInv[Len(gInv)].userId, Len(gInv)))
    /\ UNCHANGED <<userId, mounted, now, toggles, uInv, uData, uLoading, gInv, gData, gLoading>>

\* As GuardedCleanup, were the cleanup also to cancel the timer of the fetch.
GuardedCleanup_abort ==
    /\ "cleanup" \in effects
    /\ Len(gInv) > 0
    /\ effects' = effects \ {"cleanup"}
    /\ gInv' = [gInv EXCEPT ![Len(gInv)].isMounted = FALSE, ![Len(gInv)].pending = FALSE]
    /\ console' = Append(console, Line("G", "cleanup", gInv[Len(gInv)].userId, Len(gInv)))
    /\ UNCHANGED <<userId, mounted, now, toggles, uInv, uData, uLoading, gData, gLoading>>

\* The cleanup closure returned by the previous run of WithCleanup's effect.
GuardedCleanup ==
    /\ "cleanup" \in effects
    /\ Len(gInv) > 0
    /\ effects' = effects \ {"cleanup"}
    /\ gInv' = [gInv EXCEPT ![Len(gInv)].isMounted = FALSE]
    /\ console' = Append(console, Line("G", "cleanup", gInv[Len(gInv)].userId, Len(gInv)))
    /\ UNCHANGED <<userId, mounted, now, toggles, uInv, uData, uLoading, gData, gLoading>>

\* As GuardedEffect, were the effect run without waiting for the cleanup of
\* the previous run.
GuardedEffect_early ==
    /\ "effectG" \in effects
    /\ "effectU" \notin effects
    /\ effects' = effects \ {"effectG"}
    /\ gLoading' = TRUE
    /\ gInv' = Append(gInv, [userId |-> userId, start |-> now, due |-> now + delay(userId),
                             pending |-> TRUE, isMounted |-> TRUE])
    /\ console' = Append(console, Line("G", "effect", userId, Len(gInv) + 1))
    /\ UNCHANGED <<userId, mounted, now, toggles, uInv, uData, uLoading, gData>>

\* As GuardedEffect, were isMounted one variable shared by all runs of the
\* effect (declared outside it) that every run sets to true.
GuardedEffect_sharedFlag ==
    /\ effects = {"effectG"}
    /\ effects' = {}
    /\ gLoading' = TRUE
    /\ gInv' = Append([i \in 1..Len(gInv) |-> [gInv[i] EXCEPT !.isMounted = TRUE]],
                      [userId |-> userId, start |-> now, due |-> now + delay(userId),
                       pending |-> TRUE, isMounted |-> TRUE])
    /\ console' = Append(console, Line("G", "effect", userId, Len(gInv) + 1))
    /\ UNCHANGED <<userId, mounted, now, toggles, uInv, uData, uLoading, gData>>

\* As GuardedEffect, were setLoading(true) missing.
GuardedEffect_noLoading ==
    /\ effects = {"effectG"}
    /\ effects' = {}
    /\ gInv' = Append(gInv, [userId |-> userId, start |-> now, due |-> now + delay(userId),
                             pending |-> TRUE, isMounted |-> TRUE])
    /\ console' = Append(console, Line("G", "effect", userId, Len(gInv) + 1))
    /\ UNCHANGED <<userId, mounted, now, toggles, uInv, uData, uLoading, gData, gLoading>>

\* The effect of WithCleanup; it runs after the cleanup of the previous run
\* and after the effect of WithoutCleanup, which precedes it in the tree.
GuardedEffect ==
    /\ effects = {"effectG"}
    /\ effects' = {}
    /\ gLoading' = TRUE
    /\ gInv' = Append(gInv, Cycle(fetchUserData(userId, now)))
    /\ console' = Append(console, Line("G", "effect", userId, Len(gInv) + 1))
    /\ UNCHANGED <<userId, mounted, now, toggles, uInv, uData, uLoading, gData>>

\* As UnguardedResolve, were the handler to apply only the result of the
\* latest fetch.
UnguardedResolve_guarded(i) ==
    /\ CanFire("U", i)
    /\ uInv' = [uInv EXCEPT ![i].pending = FALSE]
    /\ uData' = (IF i = Len(uInv) THEN <<UserData(uInv[i].userId)>> ELSE uData)
    /\ uLoading' = (IF i = Len(uInv) THEN FALSE ELSE uLoading)
    /\ console' = Append(console, Line("U", IF i = Len(uInv) THEN "set" ELSE "ignore",
                                       uInv[i].userId, i))
    /\ UNCHANGED <<userId, mounted, effects, now, toggles, gInv, gData, gLoading>>

\* WithoutCleanup's .then handler, run when the timer of its fetch fires:
\* setData(userData); setLoading(false), whatever has happened since.
\* (React drops a state update of an unmounted component.)
UnguardedResolve(i) ==
    /\ CanFire("U", i)
    /\ uInv' = [uInv EXCEPT ![i].pending = FALSE]
    /\ uData' = (IF mounted THEN <<UserData(uInv[i].userId)>> ELSE uData)
    /\ uLoading' = (IF mounted THEN FALSE ELSE uLoading)
    /\ console' = Append(console, Line("U", "set", uInv[i].userId, i))
    /\ UNCHANGED <<userId, mounted, effects, now, toggles, gInv, gData, gLoading>>

\* As GuardedResolve, were the test of isMounted missing.
GuardedResolve_unguarded(i) ==
    /\ CanFire("G", i)
    /\ gInv' = [gInv EXCEPT ![i].pending = FALSE]
    /\ gData' = <<UserData(gInv[i].userId)>>
    /\ gLoading' = FALSE
    /\ console' = Append(console, Line("G", "set", gInv[i].userId, i))
    /\ UNCHANGED <<userId, mounted, effects, now, toggles, uInv, uData, uLoading>>

\* As GuardedResolve, were the timer periodic (setInterval) instead of one-shot.
GuardedResolve_repeat(i) ==
    /\ CanFire("G", i)
    /\ IF gInv[i].isMounted
         THEN /\ gData' = <<UserData(gInv[i].userId)>>
              /\ gLoading' = FALSE
              /\ console' = Append(console, Line("G", "set", gInv[i].userId, i))
         ELSE /\ UNCHANGED <<gData, gLoading>>
              /\ console' = Append(console, Line("G", "ignore", gInv[i].userId, i))
    /\ UNCHANGED <<userId, mounted, effects, now, toggles, uInv, uData, uLoading, gInv>>

\* As GuardedResolve, were setLoading(false) placed after the if.
GuardedResolve_clearsLoading(i) ==
    /\ CanFire("G", i)
    /\ gInv' = [gInv EXCEPT ![i].pending = FALSE]
    /\ gLoading' = FALSE
    /\ IF gInv[i].isMounted
         THEN /\ gData' = <<UserData(gInv[i].userId)>>
              /\ console' = Append(console, Line("G", "set", gInv[i].userId, i))
         ELSE /\ UNCHANGED gData
              /\ console' = Append(console, Line("G", "ignore", gInv[i].userId, i))
    /\ UNCHANGED <<userId, mounted, effects, now, toggles, uInv, uData, uLoading>>

\* As GuardedResolve, were an ignored response to start the fetch again.
GuardedResolve_retry(i) ==
    /\ CanFire("G", i)
    /\ IF gInv[i].isMounted
         THEN /\ gInv' = [gInv EXCEPT ![i].pending = FALSE]
              /\ gData' = <<UserData(gInv[i].userId)>>
              /\ gLoading' = FALSE
              /\ console' = Append(console, Line("G", "set", gInv[i].userId, i))
         ELSE /\ gInv' = Append([gInv EXCEPT ![i].pending = FALSE],
                                [userId |-> userId, start |-> now, due |-> now + delay(userId),
                                 pending |-> TRUE, isMounted |-> TRUE])
              /\ UNCHANGED <<gData, gLoading>>
              /\ console' = Append(console, Line("G", "ignore", gInv[i].userId, i))
    /\ UNCHANGED <<userId, mounted, effects, now, toggles, uInv, uData, uLoading>>

\* As GuardedResolve, were the test inverted: if (!isMounted).
GuardedResolve_inverted(i) ==
    /\ CanFire("G", i)
    /\ gInv' = [gInv EXCEPT ![i].pending = FALSE]
    /\ IF ~gInv[i].isMounted
         THEN /\ gData' = <<UserData(gInv[i].userId)>>
              /\ gLoading' = FALSE
              /\ console' = Append(console, Line("G", "set", gInv[i].userId, i))
         ELSE /\ UNCHANGED <<gData, gLoading>>
              /\ console' = Append(console, Line("G", "ignore", gInv[i].userId, i))
    /\ UNCHANGED <<userId, mounted, effects, now, toggles, uInv, uData, uLoading>>

\* WithCleanup's .then handler, run when the timer of its fetch fires:
\* if (isMounted) { setData(userData); setLoading(false) } else ignore.
GuardedResolve(i) ==
    /\ CanFire("G", i)
    /\ gInv' = [gInv EXCEPT ![i].pending = FALSE]
    /\ IF gInv[i].isMounted
         THEN /\ gData' = <<UserData(gInv[i].userId)>>
              /\ gLoading' = FALSE
              /\ console' = Append(console, Line("G", "set", gInv[i].userId, i))
         ELSE /\ UNCHANGED <<gData, gLoading>>
              /\ console' = Append(console, Line("G", "ignore", gInv[i].userId, i))
    /\ UNCHANGED <<userId, mounted, effects, now, toggles, uInv, uData, uLoading>>

\* Time passes, but not past a timer that is due.  Idle time is bounded.
Tick ==
    /\ effects = {}
    /\ \A a \in Timers : ~Due(a)
    /\ \/ now < MaxTime
       \/ \E a \in Timers : Inv(a[1], a[2]).pending
    /\ now' = now + Quantum
    /\ UNCHANGED <<userId, mounted, effects, toggles,
                   uInv, uData, uLoading, gInv, gData, gLoading, console>>

\* As Unmount, had the effect of WithCleanup returned no cleanup.
Unmount_noCleanup ==
    /\ mounted
    /\ effects = {}
    /\ mounted' = FALSE
    /\ UNCHANGED <<userId, effects, now, toggles, uInv, uData, uLoading,
                   gInv, gData, gLoading, console>>

\* RaceConditionDemo is unmounted: React runs the cleanup of the last run of
\* WithCleanup's effect; WithoutCleanup's effect returned none.
Unmount ==
    /\ mounted
    /\ effects = {}
    /\ mounted' = FALSE
    /\ gInv' = [gInv EXCEPT ![Len(gInv)].isMounted = FALSE]
    /\ console' = Append(console, Line("G", "cleanup", gInv[Len(gInv)].userId, Len(gInv)))
    /\ UNCHANGED <<userId, effects, now, toggles, uInv, uData, uLoading, gData, gLoading>>

Next ==
    \/ toggleUser
    \/ UnguardedEffect
    \/ GuardedCleanup
    \/ GuardedEffect
    \/ \E i \in 1..Len(uInv) : UnguardedResolve(i)
    \/ \E i \in 1..Len(gInv) : GuardedResolve(i)
    \/ Tick

Spec == Init /\ [][Next]_vars

\* What happens without the user: React runs the pending cleanup and effects,
\* due timers fire, time passes.
Progress ==
    \/ UnguardedEffect
    \/ GuardedCleanup
    \/ GuardedEffect
    \/ \E i \in 1..Len(uInv) : UnguardedResolve(i)
    \/ \E i \in 1..Len(gInv) : GuardedResolve(i)
    \/ Tick

\* The event loop never stops: only the clicks are up to the user.
FairSpec == Spec /\ WF_vars(Progress)

\* The application with its unmount.
NextUnmount == Next \/ Unmount

SpecUnmount == Init /\ [][NextUnmount]_vars

TypeOK ==
    /\ userId \in UserIds
    /\ mounted \in BOOLEAN
    /\ effects \subseteq {"cleanup", "effectU", "effectG"}
    /\ now \in Nat
    /\ toggles \in 0..MaxToggles
    /\ uLoading \in BOOLEAN
    /\ gLoading \in BOOLEAN
    /\ Len(gInv) <= toggles + 1
    /\ Len(uInv) <= toggles + 1

(***************************************************************************)
(* Reading the console: which handler ran, for which effect run, in which  *)
(* order.                                                                  *)
(***************************************************************************)
LinesOf(who, evs, i) ==
    {k \in DOMAIN console :
        console[k].who = who /\ console[k].ev \in evs /\ console[k].inv = i}

Handled(who, i) == LinesOf(who, {"set", "ignore"}, i)

Resolved(who, i) == ~Inv(who, i).pending

HandledAt(who, i) == CHOOSE k \in Handled(who, i) : TRUE

\* The handler of run i ran after the handler of run j.
ResolvedAfter(who, i, j) ==
    /\ Resolved(who, i)
    /\ Resolved(who, j)
    /\ HandledAt(who, i) > HandledAt(who, j)

AllResolved(who) == \A a \in Timers : a[1] = who => Resolved(who, a[2])

SetLines(who) == {k \in DOMAIN console : console[k].who = who /\ console[k].ev = "set"}

LastSet(who) == CHOOSE k \in SetLines(who) : \A m \in SetLines(who) : m <= k

\* The data the console says the panel holds: that of its last "Setting state".
Written(who) ==
    IF SetLines(who) = {} THEN null ELSE <<UserData(console[LastSet(who)].userId)>>

(***************************************************************************)
(* C1.  WithCleanup: every result written to data belongs to the run of    *)
(* the effect that is the latest one started when its fetch resolves, so   *)
(* data is always the result of such a run; and when a run resolves after  *)
(* the latest run has resolved, data and loading are those of the latest.  *)
(***************************************************************************)
C1_GuardedAppliesOnlyLatest ==
    /\ gData = Written("G")
    /\ \A k \in SetLines("G") : \A m \in 1..(k - 1) :
          (console[m].who = "G" /\ console[m].ev = "effect")
             => console[m].inv <= console[k].inv
    /\ \A i \in 1..(Len(gInv) - 1) :
          ResolvedAfter("G", i, Len(gInv))
             => /\ gData = <<UserData(gInv[Len(gInv)].userId)>>
                /\ ~gLoading

\* userId went from A to B, B's fetch resolved, then A's: data is B's.
C1_Witness ==
    /\ Len(gInv) = 2
    /\ ResolvedAfter("G", 1, 2)
    /\ idOf(gData) = 2
    /\ userId = 2

(***************************************************************************)
(* C2.  WithoutCleanup: when userId went from A to B and A's fetch         *)
(* resolves after B's, the panel ends with A's result while userId is B.   *)
(***************************************************************************)
C2_UnguardedShowsStale ==
    (/\ effects = {}
     /\ Len(uInv) >= 2
     /\ AllResolved("U")
     /\ ResolvedAfter("U", Len(uInv) - 1, Len(uInv)))
       => /\ uData = <<UserData(uInv[Len(uInv) - 1].userId)>>
          /\ ~uLoading
          /\ idOf(uData) # userId

C2_Witness ==
    /\ effects = {}
    /\ Len(uInv) = 2
    /\ AllResolved("U")
    /\ ResolvedAfter("U", 1, 2)
    /\ userId = 2
    /\ idOf(uData) = 1

(***************************************************************************)
(* C3.  WithCleanup: at most one isMounted is true, and only that of the   *)
(* latest run of the effect.                                               *)
(***************************************************************************)
C3_OnlyLatestMounted ==
    /\ \A i \in 1..Len(gInv) : gInv[i].isMounted => i = Len(gInv)
    /\ Cardinality({i \in 1..Len(gInv) : gInv[i].isMounted}) <= 1

C3_Witness ==
    /\ Len(gInv) = 3
    /\ gInv[3].isMounted
    /\ gInv[1].pending
    /\ gInv[2].pending

(***************************************************************************)
(* C4.  WithCleanup: whenever a run of the effect starts its fetch and     *)
(* sets loading, the cleanup of every earlier run has been run and its     *)
(* isMounted is false.                                                     *)
(***************************************************************************)
C4_CleanupBeforeStart ==
    [][(Len(gInv') > Len(gInv) \/ (gLoading' /\ ~gLoading))
          => \A i \in 1..Len(gInv) :
                /\ ~gInv[i].isMounted
                /\ LinesOf("G", {"cleanup"}, i) # {}]_vars

\* The cleanup of run 1 is done, the effect of run 2 is about to run.
C4_Witness ==
    /\ effects = {"effectG"}
    /\ Len(gInv) = 1
    /\ ~gInv[1].isMounted
    /\ ~gLoading

(***************************************************************************)
(* C5.  WithCleanup: whenever loading is false, the id it renders is the   *)
(* current userId.                                                         *)
(***************************************************************************)
C5_RenderedIdIsCurrent == ~gLoading => idOf(gData) = userId

(***************************************************************************)
(* C6.  userId 1 fetched at 0, userId 2 from 1000 on: the fetch for 2      *)
(* resolves first, at 2000, and then both panels show id 2; the fetch for  *)
(* 1 resolves at 3000, after which WithCleanup shows id 2 and              *)
(* WithoutCleanup id 1.                                                    *)
(***************************************************************************)
E2E1 ==
    /\ Len(uInv) = 2
    /\ Len(gInv) = 2
    /\ \A w \in {"U", "G"} : Inv(w, 1).start = 0 /\ Inv(w, 2).start = 1000

C6_ScenarioE2E1 ==
    E2E1 =>
      /\ \A w \in {"U", "G"} :
            /\ Resolved(w, 1) => ResolvedAfter(w, 1, 2)
            /\ Resolved(w, 2) => console[HandledAt(w, 2)].at = 2000
            /\ Resolved(w, 1) => console[HandledAt(w, 1)].at = 3000
      /\ (Resolved("U", 2) /\ Resolved("G", 2) /\ ~Resolved("U", 1) /\ ~Resolved("G", 1))
            => /\ idOf(uData) = 2 /\ ~uLoading
               /\ idOf(gData) = 2 /\ ~gLoading
      /\ Resolved("U", 1) => (idOf(uData) = 1 /\ ~uLoading)
      /\ Resolved("G", 1) => (idOf(gData) = 2 /\ ~gLoading)

C6_Witness ==
    /\ E2E1
    /\ AllResolved("U")
    /\ AllResolved("G")
    /\ now = 3000
    /\ idOf(uData) = 1
    /\ idOf(gData) = 2

(***************************************************************************)
(* C7.  userId 1, 2, 1 with both toggles before any fetch resolves: the    *)
(* results of the first two runs are never applied by WithCleanup, which   *)
(* keeps loading until the third resolves and then shows user 1.           *)
(***************************************************************************)
E2E3 ==
    /\ Len(gInv) = 3
    /\ \A k \in DOMAIN console :
          (console[k].who = "G" /\ console[k].ev \in {"set", "ignore"})
             => \E m \in LinesOf("G", {"effect"}, 3) : m < k

C7_ScenarioE2E3 ==
    E2E3 =>
      /\ LinesOf("G", {"set"}, 1) = {}
      /\ LinesOf("G", {"set"}, 2) = {}
      /\ ~Resolved("G", 3) => (gLoading /\ gData = null)
      /\ Resolved("G", 3) => (gData = <<UserData(1)>> /\ ~gLoading)

C7_Witness ==
    /\ E2E3
    /\ AllResolved("G")
    /\ ResolvedAfter("G", 2, 1)
    /\ gData = <<UserData(1)>>

(***************************************************************************)
(* C8.  With userId never toggled, once the one fetch of each panel has    *)
(* resolved both panels hold the same data, that of user 1, with loading   *)
(* false, and nothing was ignored.                                         *)
(***************************************************************************)
C8_ScenarioE2E2 ==
    (toggles = 0 /\ Len(uInv) = 1 /\ Len(gInv) = 1
        /\ Resolved("U", 1) /\ Resolved("G", 1))
       => /\ uData = <<UserData(userId)>>
          /\ gData = uData
          /\ ~uLoading
          /\ ~gLoading
          /\ \A k \in DOMAIN console : console[k].ev # "ignore"

C8_Witness ==
    /\ toggles = 0
    /\ Len(uInv) = 1
    /\ Len(gInv) = 1
    /\ Resolved("U", 1)
    /\ Resolved("G", 1)
    /\ ~gLoading

(***************************************************************************)
(* C9.  Every fetch resolves at most once: its handler runs at most once,  *)
(* exactly once when the fetch is no longer pending, and so sets state at  *)
(* most once.                                                              *)
(***************************************************************************)
C9_ResolvesAtMostOnce ==
    \A a \in Timers :
       /\ Cardinality(Handled(a[1], a[2])) <= 1
       /\ Resolved(a[1], a[2]) <=> Cardinality(Handled(a[1], a[2])) = 1
       /\ Cardinality(LinesOf(a[1], {"set"}, a[2])) <= 1

\* Every fetch of four runs has resolved.
C9_Witness ==
    /\ Len(gInv) = 4
    /\ AllResolved("U")
    /\ AllResolved("G")

(***************************************************************************)
(* C11.  WithCleanup: the isMounted of a run of the effect is true when    *)
(* the run starts, changes only in the step that runs the cleanup of that  *)
(* run, and then from true to false; no run ever disappears.               *)
(***************************************************************************)
C11_FlagOwnedAndMonotone ==
    [][/\ Len(gInv') >= Len(gInv)
       /\ \A i \in (Len(gInv) + 1)..Len(gInv') : gInv'[i].isMounted
       /\ \A i \in 1..Len(gInv) :
             gInv'[i].isMounted # gInv[i].isMounted
                => /\ gInv[i].isMounted
                   /\ ~gInv'[i].isMounted
                   /\ console' = Append(console, Line("G", "cleanup", gInv[i].userId, i))]_vars

\* Run 1 was cleaned up and its response ignored; run 2 is live.
C11_Witness ==
    /\ Len(gInv) = 2
    /\ ~gInv[1].isMounted
    /\ LinesOf("G", {"ignore"}, 1) # {}
    /\ gInv[2].isMounted

(***************************************************************************)
(* C12.  WithCleanup: the step in which a fetch resolves leaves data and   *)
(* loading as they are when the isMounted of its run is false, and sets    *)
(* data to its result and loading to false when it is true.                *)
(***************************************************************************)
C12_DiscardChangesNothing ==
    [][\A i \in 1..Len(gInv) :
          (gInv[i].pending /\ Len(gInv') >= i /\ ~gInv'[i].pending)
             => IF gInv[i].isMounted
                  THEN gData' = <<UserData(gInv[i].userId)>> /\ ~gLoading'
                  ELSE gData' = gData /\ gLoading' = gLoading]_vars

\* A response was ignored while the panel was loading, and it still is.
C12_Witness ==
    /\ \E k \in DOMAIN console :
          /\ console[k].who = "G"
          /\ console[k].ev = "ignore"
          /\ k = Len(console)
    /\ gLoading
    /\ gData = null

(***************************************************************************)
(* C13.  WithoutCleanup: the step in which any of its fetches resolves     *)
(* sets data to the result of that fetch and loading to false; so once a   *)
(* fetch has resolved, data is the result of the fetch that resolved last. *)
(***************************************************************************)
HandledLines(who) ==
    {k \in DOMAIN console : console[k].who = who /\ console[k].ev \in {"set", "ignore"}}

LastHandled(who) == CHOOSE k \in HandledLines(who) : \A m \in HandledLines(who) : m <= k

C13_UnguardedAppliesAll ==
    /\ [](HandledLines("U") # {}
            => /\ uData = <<UserData(uInv[console[LastHandled("U")].inv].userId)>>
               /\ console[LastHandled("U")].ev = "set")
    /\ [][\A i \in 1..Len(uInv) :
            (uInv[i].pending /\ ~uInv'[i].pending)
               => uData' = <<UserData(uInv[i].userId)>> /\ ~uLoading']_vars

\* The first of three fetches resolved last, while the third is pending:
\* the panel shows user 1 with loading false.
C13_Witness ==
    /\ Len(uInv) = 3
    /\ effects = {}
    /\ uInv[3].pending
    /\ Resolved("U", 2)
    /\ console[LastHandled("U")].inv = 1
    /\ ~uLoading
    /\ idOf(uData) = 1

(***************************************************************************)
(* C14.  Each panel starts exactly one fetch at mount and one per toggle,  *)
(* for the userId of that moment: both have started the same userIds, 1,   *)
(* 2, 1, ... in order of the toggles, and nothing else starts a fetch.     *)
(***************************************************************************)
IdAfter(n) == IF n % 2 = 0 THEN 1 ELSE 2

C14_OneFetchPerChange ==
    /\ Len(uInv) = toggles + (IF "effectU" \in effects THEN 0 ELSE 1)
    /\ Len(gInv) = toggles + (IF "effectG" \in effects THEN 0 ELSE 1)
    /\ userId = IdAfter(toggles)
    /\ \A a \in Timers :
          /\ Inv(a[1], a[2]).userId = IdAfter(a[2] - 1)
          /\ Cardinality(LinesOf(a[1], {"effect"}, a[2])) = 1
          /\ \A b \in Timers : a[2] < b[2] => Inv(a[1], a[2]).start <= Inv(b[1], b[2]).start
    /\ \A i \in 1..Len(gInv) : uInv[i].start = gInv[i].start

\* Three toggles, four fetches each, some response ignored.
C14_Witness ==
    /\ toggles = 3
    /\ effects = {}
    /\ Len(uInv) = 4
    /\ Len(gInv) = 4
    /\ userId = 2
    /\ \E k \in DOMAIN console : console[k].ev = "ignore"

(***************************************************************************)
(* C15.  WithCleanup: the cleanup leaves the fetch of its run as it is,    *)
(* and a fetch that is pending when its isMounted has become false still   *)
(* resolves, once, its response being ignored.                             *)
(***************************************************************************)
Superseded(i) == i <= Len(gInv) /\ ~gInv[i].isMounted /\ gInv[i].pending

Discarded(i) ==
    /\ i <= Len(gInv)
    /\ ~gInv[i].pending
    /\ Cardinality(Handled("G", i)) = 1
    /\ LinesOf("G", {"ignore"}, i) # {}

C15_CancellationIsAdvisory ==
    /\ [][\A i \in 1..Len(gInv) :
            gInv'[i].isMounted # gInv[i].isMounted
               => /\ gInv'[i].pending = gInv[i].pending
                  /\ gInv'[i].due = gInv[i].due]_vars
    /\ \A i \in 1..(MaxToggles + 1) : Superseded(i) ~> Discarded(i)

\* Two superseded fetches have resolved and were ignored; the third is pending.
C15_Witness ==
    /\ Len(gInv) = 3
    /\ Discarded(1)
    /\ Discarded(2)
    /\ gInv[3].pending

(***************************************************************************)
(* C16.  fetchUserData: every call resolves exactly 3000 ms after it was   *)
(* made for userId 1 and 1000 ms after for userId 2, with the id, name and *)
(* email of the userId passed in; a step that makes or resolves one call   *)
(* leaves every other call as it was.                                      *)
(***************************************************************************)
User1 == [id |-> 1, name |-> <<"User ", 1>>, email |-> <<"user", 1, "@example.com">>]

User2 == [id |-> 2, name |-> <<"User ", 2>>, email |-> <<"user", 2, "@example.com">>]

Call(inv) == [userId |-> inv.userId, start |-> inv.start, due |-> inv.due,
              pending |-> inv.pending]

Calls == [a \in Timers |-> Call(Inv(a[1], a[2]))]

C16_SimulatedRemoteSource ==
    /\ [](/\ \A a \in Timers :
               /\ Calls[a].due - Calls[a].start = (IF Calls[a].userId = 1 THEN 3000 ELSE 1000)
               /\ ~Calls[a].pending
                     => /\ Cardinality(Handled(a[1], a[2])) = 1
                        /\ console[HandledAt(a[1], a[2])].at = Calls[a].due
                        /\ console[HandledAt(a[1], a[2])].userId = Calls[a].userId
               /\ Calls[a].pending => now <= Calls[a].due
          /\ uData \in {null, <<User1>>, <<User2>>}
          /\ gData \in {null, <<User1>>, <<User2>>}
          /\ SetLines("U") # {} => idOf(uData) = console[LastSet("U")].userId
          /\ SetLines("G") # {} => idOf(gData) = console[LastSet("G")].userId)
    /\ [][/\ Timers \subseteq Timers'
          /\ Cardinality({a \in Timers : Calls'[a] # Calls[a]}) <= 1
          /\ \A a \in Timers :
                Calls'[a] # Calls[a]
                   => /\ Timers' = Timers
                      /\ Calls'[a] = [Calls[a] EXCEPT !.pending = FALSE]]_vars

\* Calls for both users have resolved in each panel while another is pending.
C16_Witness ==
    /\ Len(uInv) = 3
    /\ Len(gInv) = 3
    /\ Resolved("U", 1) /\ Resolved("U", 2) /\ ~Resolved("U", 3)
    /\ Resolved("G", 1) /\ Resolved("G", 2) /\ ~Resolved("G", 3)
    /\ uData = <<User1>>
    /\ gData = null

(***************************************************************************)
(* C17.  When WithCleanup is unmounted the cleanup of its last run sets    *)
(* that run's isMounted to false; afterwards no isMounted is true, every   *)
(* response is ignored and data and loading no longer change.              *)
(***************************************************************************)
C17_UnmountIsTeardown ==
    [][/\ (mounted /\ ~mounted')
            => /\ ~gInv'[Len(gInv)].isMounted
               /\ console' = Append(console, Line("G", "cleanup",
                                                  gInv[Len(gInv)].userId, Len(gInv)))
       /\ ~mounted'
            => /\ \A i \in 1..Len(gInv') : ~gInv'[i].isMounted
               /\ gData' = gData
               /\ gLoading' = gLoading
       /\ ~mounted
            => \A i \in 1..Len(gInv) :
                  (gInv[i].pending /\ ~gInv'[i].pending)
                     => console' = Append(console, Line("G", "ignore", gInv[i].userId, i))]_vars

\* Unmounted while loading: the response of the last run came and was ignored.
C17_Witness ==
    /\ ~mounted
    /\ AllResolved("G")
    /\ LinesOf("G", {"ignore"}, Len(gInv)) # {}
    /\ gLoading

(***************************************************************************)
(* C18.  WithCleanup: once the toggles have stopped, the panel reaches and *)
(* keeps loading = false with the data of the final userId.                *)
(***************************************************************************)
Settled == effects = {} /\ ~gLoading /\ idOf(gData) = userId

C18_GuardedConverges == <>[]Settled

\* Settled after two toggles, the responses of runs 1 and 2 ignored.
C18_Witness ==
    /\ toggles = 2
    /\ Settled
    /\ AllResolved("G")
    /\ LinesOf("G", {"ignore"}, 1) # {}
    /\ LinesOf("G", {"ignore"}, 2) # {}

(***************************************************************************)
(* C19.  WithCleanup: once the effect for the current userId has run,      *)
(* loading is true exactly when the fetch of the latest run is pending.    *)
(***************************************************************************)
C19_LoadingTracksLatest ==
    "effectG" \notin effects => (gLoading <=> gInv[Len(gInv)].pending)

\* A superseded response has been ignored, the latest is pending: loading.
C19_Witness ==
    /\ effects = {}
    /\ Len(gInv) = 2
    /\ LinesOf("G", {"ignore"}, 1) # {}
    /\ gInv[2].pending
    /\ gLoading

(***************************************************************************)
(* C20.  When the fetches of each panel resolve in the order they were     *)
(* started, then once all have resolved both panels hold the same data     *)
(* with loading false.                                                     *)
(***************************************************************************)
InOrder(who) ==
    \A a \in Timers : \A b \in Timers :
       (a[1] = who /\ b[1] = who /\ a[2] < b[2] /\ Resolved(who, a[2]) /\ Resolved(who, b[2]))
          => HandledAt(who, a[2]) < HandledAt(who, b[2])

C20_AgreeWhenInOrder ==
    (effects = {} /\ AllResolved("U") /\ AllResolved("G") /\ InOrder("U") /\ InOrder("G"))
       => /\ uData = gData
          /\ uData = <<UserData(userId)>>
          /\ ~uLoading
          /\ ~gLoading

\* Three fetches resolved in order in both panels, one of them ignored.
C20_Witness ==
    /\ effects = {}
    /\ Len(gInv) = 3
    /\ AllResolved("U")
    /\ AllResolved("G")
    /\ InOrder("U")
    /\ InOrder("G")
    /\ \E k \in DOMAIN console : console[k].ev = "ignore"

(***************************************************************************)
(* C21.  With the delays of fetchUserData and userId toggling between 1    *)
(* and 2, a fetch is handled after one started later only when it is for   *)
(* userId 1; so when all fetches have resolved and userId is 1,            *)
(* WithoutCleanup shows id 1, and it shows stale data only when userId is  *)
(* 2.                                                                      *)
(***************************************************************************)
\* The fetch of run i is overtaken by that of the later run j.
Overtaken(who, i, j) ==
    /\ i < j
    /\ Resolved(who, j)
    /\ ~Resolved(who, i) \/ HandledAt(who, i) > HandledAt(who, j)

C21_OnlyUser1IsOvertaken ==
    /\ \A a \in Timers : \A b \in Timers :
          (a[1] = b[1] /\ Overtaken(a[1], a[2], b[2])) => Inv(a[1], a[2]).userId = 1
    /\ (effects = {} /\ AllResolved("U"))
          => /\ userId = 1 => idOf(uData) = 1
             /\ idOf(uData) # userId => userId = 2

\* userId 1, 2, 1: run 1 was handled after run 2, and the panel ends on id 1.
C21_Witness ==
    /\ effects = {}
    /\ toggles = 2
    /\ userId = 1
    /\ AllResolved("U")
    /\ ResolvedAfter("U", 1, 2)
    /\ idOf(uData) = 1

====
